---------------------------- MODULE Spec2Model ----------------------------
(***************************************************************************)
(* Model of the Throttle rate limiter: the two Lua procedures (token       *)
(* bucket, sliding window log), their status variants, reset, the limiter  *)
(* classes that read the clock in the caller and hand the timestamp to    *)
(* the store, and the store's key expiry.                                  *)
(*                                                                         *)
(* Numbers.  Time is counted in ticks, TicksPerGrid of them in 0.0001 s.   *)
(* Lua numbers are exact rationals, except where the code converts them:   *)
(*   - tostring(last_refill) (Lua's "%.14g") keeps 14 significant digits:  *)
(*     an epoch timestamp in seconds has 10 integer digits, so 4 decimals  *)
(*     survive and the stored value lies on a grid of 0.0001 s;            *)
(*   - string.format("%.3f", x) keeps 3 decimals (milliseconds);           *)
(*   - int(time.time() * 1000) truncates to whole milliseconds.            *)
(* Token amounts are integers in units of 1/TokScale token, which makes    *)
(* every refill amount (elapsed * limit / window) an integer.  The         *)
(* relative error 1e-14 that tostring(tokens) adds is far below one unit   *)
(* and is left out.                                                        *)
(***************************************************************************)
EXTENDS Integers, Sequences, FiniteSets, Bags, TLC

\* ------------------------------------------------------------- scales
\* the factor 1000 between seconds and milliseconds
MsPerSec == 1000

\* ------------------------------------------------------------- bounds
\* resolution of the clock: ticks in 0.0001 s, the grid tostring() leaves
\* of a timestamp
TicksPerGrid == 3
\* operations begun by concurrent callers in one behaviour
MaxOps == 2
\* checks of the sequential caller in one behaviour
MaxSeqOps == 3
\* checks of the caller that keeps checking while it is locked out
MaxLockoutOps == 4
\* the clock stops after this many seconds
MaxSeconds == 3
\* math.random(1000000) is drawn from 1..MaxNonce
MaxNonce == 2
\* callers of a burst
BurstCallers == 3
\* a burst ends before this tick
MaxBurstTicks == 4

\* ticks in a millisecond (ten grid steps) and in a second
TicksPerMs == 10 * TicksPerGrid
TicksPerSec == TicksPerMs * MsPerSec

Nonces == 1..MaxNonce
MaxTime == MaxSeconds * TicksPerSec + TicksPerGrid
\* limits and windows (seconds) the callers use
Limits == {1, 2}
Windows == {1, 2}
Ids == {"a"}
\* identifiers of the runs in which callers use several of them; the second
\* one contains ':' and a prefix literal
Identifiers == {"a", "token_bucket:a"}

\* Algorithm enum values, also the KEY_PREFIX of each limiter
TOKEN_BUCKET == "token_bucket"
SLIDING_WINDOW == "sliding_window"
Algs == {TOKEN_BUCKET, SLIDING_WINDOW}

\* both limiters with one KEY_PREFIX, the fault C23_ResetFrame excludes
KeyPrefixSame(alg) == "token_bucket"

\* KEY_PREFIX of TokenBucketLimiter and of SlidingWindowLimiter
KeyPrefix(alg) == IF alg = TOKEN_BUCKET THEN "token_bucket" ELSE "sliding_window"

\* a key without the prefix, the fault C14_KeysDisjoint excludes
GetKeyBare(alg, identifier) == identifier

\* a key that leaves the identifier out, the fault C13_IdentifierFrame
\* excludes
GetKeyShared(alg, identifier) == KeyPrefix(alg) \o ":"

\* _get_key: f"{cls.KEY_PREFIX}:{identifier}"
GetKey(alg, identifier) == KeyPrefix(alg) \o ":" \o identifier

\* identifier strings with ':' and the prefix literals in them
KeyStrings == {"", "a", ":", "a:", ":a", "a:a", "token_bucket", "token_bucket:",
               "token_bucket:a", "sliding_window", "sliding_window:a",
               ":token_bucket:a", "bucket:a", "window:a"}

\* the keys the callers of the model can name
Keys == {GetKey(alg, i) : alg \in Algs, i \in Identifiers}

\* least common multiple of the windows
WindowLcm == CHOOSE m \in 1..8 :
                 /\ \A w \in Windows : m % w = 0
                 /\ \A k \in 1..(m - 1) : \E w \in Windows : k % w # 0
\* token units in one token
TokScale == TicksPerSec * WindowLcm

\* absent key; absent retry_after
NoKey == [exists |-> FALSE]
None == -1

Min(a, b) == IF a <= b THEN a ELSE b
Max(a, b) == IF a >= b THEN a ELSE b

\* num/den rounded to the nearest integer (num >= 0, den > 0)
RoundDiv(num, den) == (2 * num + den) \div (2 * den)

\* ------------------------------------------------------- conversions
\* tostring(x) of a timestamp in ticks: the nearest grid point, in ticks
Tostring14(t) == ((t + (TicksPerGrid \div 2)) \div TicksPerGrid) * TicksPerGrid

\* string.format("%.3f", num/den), read back by float(): the value in
\* thousandths, round(1000 * num / den); den is a multiple of 1000
Format3(num, den) == RoundDiv(num, den \div MsPerSec)

\* int(time.time() * 1000): milliseconds of the clock in ticks
TimeMs(t) == t \div TicksPerMs

\* refill_rate * time_passed in token units: limit / window tokens per second
Refill(time_passed, limit, window) == time_passed * limit * (WindowLcm \div window)

\* math.ceil(window_seconds * 2) seconds, in ticks
Ttl(window) == 2 * window * TicksPerSec


\* ------------------------------------------------------- token bucket
\* a bucket created one token short, the fault C6_FirstCheck excludes
TBInitTokensShort(max_tokens) == (max_tokens - 1) * TokScale

\* tokens = max_tokens of a bucket that does not exist
TBInitTokens(max_tokens) == max_tokens * TokScale

\* tokens >= 1
TBCanConsume(tokens) == tokens >= TokScale

\* tostring(last_refill) as HSET stores it and the next HMGET reads it
TBStoredRefill(now) == Tostring14(now)

\* TOKEN_BUCKET_LUA_SCRIPT: bucket is the stored hash or NoKey, now the
\* caller's timestamp (ticks), srv the store's clock (ticks)
TBCheckScript(bucket, max_tokens, window, now, srv) ==
    LET tokens0 == IF bucket.exists THEN bucket.tokens ELSE TBInitTokens(max_tokens)
        last0 == IF bucket.exists THEN bucket.last_refill ELSE now
        time_passed == now - last0
        tokens1 == Min(max_tokens * TokScale,
                       tokens0 + Refill(time_passed, max_tokens, window))
        allowed == TBCanConsume(tokens1)
        tokens == IF allowed THEN tokens1 - TokScale ELSE tokens1
        tokens_needed == max_tokens * TokScale - tokens
        reset_in == IF tokens_needed > 0
                    THEN Format3(tokens_needed * window, TokScale * max_tokens)
                    ELSE 0
        retry == IF ~allowed
                 THEN Format3((TokScale - tokens) * window, TokScale * max_tokens)
                 ELSE 0
    IN [allowed |-> allowed,
        remaining |-> tokens \div TokScale,
        reset_in |-> reset_in,
        retry |-> retry,
        key |-> [exists |-> TRUE, tokens |-> tokens,
                 last_refill |-> TBStoredRefill(now),
                 expire_at |-> srv + Ttl(window)]]

\* TOKEN_BUCKET_STATUS_LUA_SCRIPT: writes nothing
TBStatusScript(bucket, max_tokens, window, now) ==
    IF ~bucket.exists
    THEN [used |-> 0, remaining |-> max_tokens, reset_in |-> 0]
    ELSE LET tokens == Min(max_tokens * TokScale,
                           bucket.tokens
                             + Refill(now - bucket.last_refill, max_tokens, window))
             tokens_needed == max_tokens * TokScale - tokens
         IN [used |-> tokens_needed \div TokScale,
             remaining |-> tokens \div TokScale,
             reset_in |-> IF tokens_needed > 0
                          THEN Format3(tokens_needed * window, TokScale * max_tokens)
                          ELSE 0]

\* ----------------------------------------------------- sliding window
\* An entry of the sorted set is <<score, nonce>>: the member is
\* tostring(now) .. ':' .. tostring(nonce) and its score is now (ms).
Score(e) == e[1]

\* a pruning that keeps the entry exactly one window old, the fault
\* C26_SlidingWindowStep excludes
SWPruneExclusive(entries, window_start) ==
    {e \in entries : Score(e) >= window_start}

\* ZREMRANGEBYSCORE key -inf window_start
SWPrune(entries, window_start) == {e \in entries : Score(e) > window_start}

\* score of ZRANGE key 0 0 WITHSCORES on a non-empty set
SWOldest(entries) == CHOOSE s \in {Score(e) : e \in entries} :
                         \A e \in entries : s <= Score(e)

\* an insertion test off by one, the fault C2_SizeBound excludes
SWCanInsertOffByOne(current_count, limit) == current_count <= limit

\* current_count < limit
SWCanInsert(current_count, limit) == current_count < limit

\* time until the oldest entry leaves the window, "%.3f" of whole
\* milliseconds / 1000 is exact
SWUntilExpiry(entries, window, now) ==
    Max(0, SWOldest(entries) + window * MsPerSec - now)

\* a store that keeps an empty sorted set, the fault C22_StatusFresh
\* excludes
SWKeyKeepsEmpty(entries, expire_at) ==
    [exists |-> TRUE, entries |-> entries, expire_at |-> expire_at]

\* a sorted set that became empty is deleted by the store
SWKey(entries, expire_at) ==
    IF entries = {} THEN NoKey
    ELSE [exists |-> TRUE, entries |-> entries, expire_at |-> expire_at]

SWEntries(zset) == IF zset.exists THEN zset.entries ELSE {}

\* a check that logs its timestamp whether allowed or not, the fault
\* C29_DeniedStoresNothing excludes
SWInsertAlways(live, allowed, entry) == live \cup {entry}

\* ZADD key now member, in the allowed branch only
SWInsert(live, allowed, entry) == IF allowed THEN live \cup {entry} ELSE live

\* SLIDING_WINDOW_LUA_SCRIPT: now in milliseconds, srv the store's clock
SWCheckScript(zset, limit, window, now, nonce, srv) ==
    LET live == SWPrune(SWEntries(zset), now - window * MsPerSec)
        current_count == Cardinality(live)
        allowed == SWCanInsert(current_count, limit)
        after == SWInsert(live, allowed, <<now, nonce>>)
    IN [allowed |-> allowed,
        remaining |-> IF allowed THEN limit - current_count - 1 ELSE 0,
        retry |-> IF allowed \/ live = {} THEN 0
                  ELSE SWUntilExpiry(live, window, now),
        reset_in |-> IF after = {} THEN window * MsPerSec
                     ELSE SWUntilExpiry(after, window, now),
        key |-> SWKey(after, srv + Ttl(window))]

\* a status that counts the entries without pruning them first, the fault
\* C34_StatusAgreesWithCheck excludes
SWStatusScriptUnpruned(zset, limit, window, now) ==
    LET live == SWEntries(zset)
        current_count == Cardinality(live)
    IN [used |-> current_count,
        remaining |-> Max(0, limit - current_count),
        reset_in |-> IF live = {} THEN window * MsPerSec
                     ELSE SWUntilExpiry(live, window, now),
        key |-> zset]

\* SLIDING_WINDOW_STATUS_LUA_SCRIPT: prunes, never inserts, sets no expiry
SWStatusScript(zset, limit, window, now) ==
    LET live == SWPrune(SWEntries(zset), now - window * MsPerSec)
        current_count == Cardinality(live)
    IN [used |-> current_count,
        remaining |-> Max(0, limit - current_count),
        reset_in |-> IF live = {} THEN window * MsPerSec
                     ELSE SWUntilExpiry(live, window, now),
        key |-> SWKey(live, IF zset.exists THEN zset.expire_at ELSE 0)]

\* ------------------------------------------------------------- state
VARIABLES
    now,        \* the wall clock, in ticks (clients and store share it)
    store,      \* the store's keyspace: key -> hash, sorted set or NoKey
    call,       \* bag of the calls in flight: sent, not yet served
    result,     \* the result the limiter returned last, or NoResult
    nops,       \* operations begun so far
    log,        \* results in the order the store served them (where recorded)
    use,        \* the algorithms the callers of this run select
    lim,        \* the limit the callers of a fixed-configuration run pass
    win,        \* the window (seconds) they pass
    client      \* RedisClient._client is not None

vars == <<now, store, call, result, nops, log, use, lim, win, client>>

\* the token bucket hash and the sliding window sorted set of an identifier
tb == [i \in Identifiers |-> store[GetKey(TOKEN_BUCKET, i)]]
sw == [i \in Identifiers |-> store[GetKey(SLIDING_WINDOW, i)]]

NoResult == [op |-> "none"]

\* time.time() as each limiter uses it: seconds (ticks) for the token
\* bucket, int(time.time() * 1000) for the sliding window
Stamp(alg, t) == IF alg = TOKEN_BUCKET THEN t ELSE TimeMs(t)

\* a limiter that reads the last two fields of the reply in the wrong
\* order, the fault C31_RetryBeforeReset excludes
CheckResultSwapped(r) ==
    [allowed |-> r.allowed, remaining |-> r.remaining, used |-> 0,
     reset_in |-> r.retry,
     retry_after |-> IF ~r.allowed THEN r.reset_in ELSE None,
     deleted |-> FALSE]

\* TokenBucketLimiter.check / SlidingWindowLimiter.check: the part after
\* the script returned
CheckResult(r) ==
    [allowed |-> r.allowed, remaining |-> r.remaining, used |-> 0,
     reset_in |-> r.reset_in,
     retry_after |-> IF ~r.allowed THEN r.retry ELSE None,
     deleted |-> FALSE]

\* get_status of either limiter
StatusResult(r) ==
    [allowed |-> FALSE, remaining |-> r.remaining, used |-> r.used,
     reset_in |-> r.reset_in, retry_after |-> None, deleted |-> FALSE]

\* reset of either limiter: RedisClient.delete_key, result > 0
ResetResult(key) ==
    [allowed |-> FALSE, remaining |-> 0, used |-> 0, reset_in |-> 0,
     retry_after |-> None, deleted |-> key.exists]

\* ------------------------------------------------------ request layer
\* reset_rate_limit: 404 when a selected algorithm had nothing to clear,
\* 200 otherwise; check_rate_limit and get_rate_limit_status answer 200
HttpStatus(op, reset_count) ==
    IF op = "reset" /\ reset_count = 0 THEN 404 ELSE 200

\* round(x, 2) of a value in thousandths, in thousandths
Round2(x) == RoundDiv(x, 10) * 10

\* check_rate_limit: round(result.retry_after, 2) if result.retry_after
\* else None
HttpRetryAfter(retry_after) ==
    IF retry_after # None /\ retry_after # 0 THEN Round2(retry_after) ELSE None

\* what a client may send as limit or window_seconds besides an accepted
\* number, and as algorithm
NonPositive == {-1, 0}
AlgorithmInputs == Algs \cup {"invalid_algo"}

\* a validation that forgets the lower bound of limit, the fault
\* C18_InvalidRejected excludes
ValidNoLimit(algorithm, limit, window) ==
    algorithm \in Algs /\ window >= 1 /\ window <= 86400

\* RateLimitCheckRequest and the Query parameters of
\* get_rate_limit_status: algorithm is an Algorithm, 1 <= limit <= 100000,
\* 1 <= window_seconds <= 86400
Valid(algorithm, limit, window) ==
    /\ algorithm \in Algs
    /\ limit >= 1 /\ limit <= 100000
    /\ window >= 1 /\ window <= 86400

\* what a PING may come to: the store's answer or a store error
PONG == "PONG"

\* a health check that never looks at the store, the fault C24_Health
\* excludes
IsHealthyAlways(initialized, pong) == TRUE

\* RedisClient.is_healthy: False without a client or when ping raises a
\* RedisError, True when the store answered
IsHealthy(initialized, pong) == initialized /\ pong = PONG

\* health_check: "healthy" if redis_healthy else "unhealthy"
HealthStatus(redis_healthy) == IF redis_healthy THEN "healthy" ELSE "unhealthy"

\* the store errors of the client library, and the value of the error
\* field of a result that was returned
RedisErrors == {"ConnectionError", "TimeoutError"}
NoError == "none"

\* Settings.redis_retry_on_timeout, handed to the connection pool
redis_retry_on_timeout == TRUE

\* the limiters' "except Exception: log; raise"
LimiterRaise(err) == err

\* a request layer that answers every error as an internal error, the
\* fault C16_StoreErrors excludes
HttpErrorInternal(err) == 500

\* redis_exception_handler for a RedisError, general_exception_handler
\* and the endpoints' HTTPException(500) for anything else
HttpError(err) == IF err \in RedisErrors THEN 503 ELSE 500

\* a reset that leaves the key in place, the fault C12_ResetThenCheck excludes
DeleteKeyKeeps(key) == key

\* RedisClient.delete_key: DEL key
DeleteKey(key) == NoKey

\* a key whose expiry time has come is gone
Expire(key, t) == IF key.exists /\ key.expire_at <= t THEN NoKey ELSE key

\* the request layer's reset with no algorithm selected, and the
\* operations that delete a key
RESET_ALL == "reset_all"
Resets == {"reset", RESET_ALL}

\* the sets of algorithms a run may select from
OneAlgorithm == {{a} : a \in Algs}
AnyAlgorithms == (SUBSET Algs) \ {{}}

\* Fresh store and a connected client, no call in flight, the clock at any offset from the grid
\* of stored timestamps, one limit and one window.
Start(algsets) ==
    /\ now \in 0..(TicksPerGrid - 1)
    /\ store = [k \in Keys |-> NoKey]
    /\ call = EmptyBag
    /\ result = NoResult
    /\ nops = 0
    /\ log = <<>>
    /\ use \in algsets
    /\ lim \in Limits
    /\ win \in Windows
    /\ client = TRUE

Init == Start(AnyAlgorithms)

\* The caller's half of check / get_status / reset: derive the key, read
\* the clock, send the procedure to the store.
Begin(op, alg, id, limit, window) ==
    /\ client
    /\ call' = call (+) SetToBag({[op |-> op, alg |-> alg, id |-> id,
                                   limit |-> limit, window |-> window,
                                   ts |-> Stamp(alg, now),
                                   count |-> 0, tries |-> 0,
                                   execs |-> 0]})
    /\ nops' = nops + 1
    /\ UNCHANGED <<now, store, result, log, use, lim, win, client>>

\* What the store does with the command of a call q when it runs it: the
\* key's new value and the answer the limiter makes of the reply.
Run(q, nonce) ==
    LET old == store[GetKey(q.alg, q.id)]
        r == IF q.alg = TOKEN_BUCKET
             THEN IF q.op = "check"
                  THEN TBCheckScript(old, q.limit, q.window, q.ts, now)
                  ELSE TBStatusScript(old, q.limit, q.window, q.ts)
             ELSE IF q.op = "check"
                  THEN SWCheckScript(old, q.limit, q.window, q.ts, nonce, now)
                  ELSE SWStatusScript(old, q.limit, q.window, q.ts)
    IN [key |-> IF q.op \in Resets THEN DeleteKey(old)
                ELSE IF q.alg = TOKEN_BUCKET /\ q.op = "status" THEN old
                ELSE r.key,
        out |-> IF q.op = "check" THEN CheckResult(r)
                ELSE IF q.op = "status" THEN StatusResult(r)
                ELSE ResetResult(old),
        fresh |-> ~old.exists]

\* The store runs the procedure of a call q in flight as one step, the
\* limiter shapes the result and the caller has its answer.  A reset of
\* all algorithms is two limiter calls: the token bucket's, then the
\* sliding window's.
Serve(q, nonce, rec) ==
    /\ BagIn(q, call)
    /\ \E run \in {Run(q, nonce)} :
       LET out == run.out
           count == IF out.deleted THEN q.count + 1 ELSE q.count
           done == [op |-> q.op, alg |-> q.alg, id |-> q.id,
                    limit |-> q.limit, window |-> q.window, ts |-> q.ts,
                    fresh |-> run.fresh,
                    allowed |-> out.allowed, remaining |-> out.remaining,
                    used |-> out.used, reset_in |-> out.reset_in,
                    retry_after |-> out.retry_after, deleted |-> out.deleted,
                    returned |-> TRUE, error |-> NoError,
                    execs |-> q.execs + 1,
                    reset_count |-> count,
                    http |-> HttpStatus(q.op, count),
                    http_retry_after |-> HttpRetryAfter(out.retry_after)]
       IN /\ store' = [store EXCEPT ![GetKey(q.alg, q.id)] = run.key]
          /\ IF q.op = RESET_ALL /\ q.alg = TOKEN_BUCKET
             THEN /\ call' = (call (-) SetToBag({q}))
                                (+) SetToBag({[q EXCEPT !.alg = SLIDING_WINDOW,
                                                        !.count = count]})
                  /\ UNCHANGED <<result, log>>
             ELSE /\ call' = call (-) SetToBag({q})
                  /\ result' = done
                  /\ log' = IF rec THEN Append(log, done) ELSE log
    /\ UNCHANGED <<now, nops, use, lim, win, client>>

\* The call q ends with a store error: the client wrapper and the limiter
\* log it and raise it again, the request layer turns it into a response.
Raise(q, err, ran) ==
    /\ call' = call (-) SetToBag({q})
    /\ result' = [op |-> q.op, alg |-> q.alg, id |-> q.id,
                  limit |-> q.limit, window |-> q.window, ts |-> q.ts,
                  returned |-> FALSE, error |-> LimiterRaise(err),
                  execs |-> q.execs + ran,
                  http |-> HttpError(LimiterRaise(err))]

\* A check or status request as it arrives at the request layer: the
\* framework validates it and answers 422 without calling the endpoint, or
\* the endpoint calls the limiter.
Request(op, algorithm, id, limit, window) ==
    IF Valid(algorithm, limit, window)
    THEN Begin(op, algorithm, id, limit, window)
    ELSE /\ result' = [op |-> op, alg |-> algorithm, id |-> id,
                       limit |-> limit, window |-> window,
                       returned |-> FALSE, error |-> "ValidationError",
                       execs |-> 0, http |-> 422]
         /\ nops' = nops + 1
         /\ UNCHANGED <<now, store, call, log, use, lim, win, client>>

\* The store cannot be reached for the command of q: ConnectionError.
Refuse(q) ==
    /\ BagIn(q, call)
    /\ Raise(q, "ConnectionError", 0)
    /\ UNCHANGED <<now, store, nops, log, use, lim, win, client>>

\* No reply to the command of q arrives within socket_timeout; the store
\* has run the command (ran = 1) or has not (ran = 0).  With
\* retry_on_timeout the connection sends the command once more, otherwise
\* the call ends with TimeoutError.
Timeout(q, nonce, ran) ==
    /\ BagIn(q, call)
    /\ store' = IF ran = 1
                THEN [store EXCEPT ![GetKey(q.alg, q.id)] = Run(q, nonce).key]
                ELSE store
    /\ IF redis_retry_on_timeout /\ q.tries = 0
       THEN /\ call' = (call (-) SetToBag({q}))
                          (+) SetToBag({[q EXCEPT !.tries = 1,
                                                  !.execs = q.execs + ran]})
            /\ UNCHANGED result
       ELSE Raise(q, "TimeoutError", ran)
    /\ UNCHANGED <<now, nops, log, use, lim, win, client>>

\* A call of check, get_status or reset on a client that is not
\* connected: the client property raises RuntimeError before anything is
\* sent.
Unconnected(op, alg, id, limit, window) ==
    /\ ~client
    /\ Raise([op |-> op, alg |-> alg, id |-> id, limit |-> limit,
              window |-> window, ts |-> Stamp(alg, now), count |-> 0,
              tries |-> 0, execs |-> 0], "RuntimeError", 0)
    /\ nops' = nops + 1
    /\ UNCHANGED <<now, store, log, use, lim, win, client>>

\* RedisClient.disconnect at shutdown, RedisClient.connect (its ping
\* answered) at startup
Disconnect ==
    /\ client /\ call = EmptyBag
    /\ client' = FALSE
    /\ UNCHANGED <<now, store, call, result, nops, log, use, lim, win>>

Connect ==
    /\ ~client
    /\ client' = TRUE
    /\ UNCHANGED <<now, store, call, result, nops, log, use, lim, win>>

\* RedisClient.connect, whatever the state of the wrapper and the answer
\* to its ping.  With a client it returns at once.  Without one it makes
\* the pool, assigns _client and then pings: a ping that raises leaves
\* the assignment in place and the error goes to the caller.
ConnectPing(pong) ==
    /\ client' = TRUE
    /\ result' = [op |-> "connect", pinged |-> ~client,
                  error |-> IF client \/ pong = PONG THEN NoError ELSE pong]
    /\ UNCHANGED <<now, store, call, nops, log, use, lim, win>>

\* GET /health: is_healthy pings the store if there is a client, and the
\* endpoint answers 200 with what it found.
Health(pong) ==
    /\ result' = [op |-> "health", initialized |-> client, ping |-> pong,
                  redis_connected |-> IsHealthy(client, pong),
                  status |-> HealthStatus(IsHealthy(client, pong)),
                  http |-> 200]
    /\ UNCHANGED <<now, store, call, nops, log, use, lim, win, client>>

\* Time passes; keys whose expiry time has come disappear.
Tick(d) ==
    /\ d > 0
    /\ now + d <= MaxTime
    /\ now' = now + d
    /\ store' = [k \in Keys |-> Expire(store[k], now + d)]
    /\ UNCHANGED <<call, result, nops, log, use, lim, win, client>>

Ops == {"check", "status", "reset"}

\* the values math.random may give a call: only the sliding window check
\* draws one
Draws(q) == IF q.alg = SLIDING_WINDOW /\ q.op = "check" THEN Nonces ELSE {1}

\* Any number of callers, any interleaving, one limit and one window.
BeginAny == \E op \in Ops, alg \in use, id \in Ids :
                nops < MaxOps /\ Begin(op, alg, id, lim, win)
ServeAny == \E q \in BagToSet(call) : \E nonce \in Draws(q) : Serve(q, nonce, FALSE)
TickWindow == Tick(win * TicksPerSec)

Next == BeginAny \/ ServeAny \/ TickWindow

Spec == Init /\ [][Next]_vars

\* Concurrent callers of one algorithm that only check; the results are
\* recorded in the order the store served them.
BeginCheck == \E alg \in use, id \in Ids :
                  nops < MaxOps /\ Begin("check", alg, id, lim, win)
ServeRecorded == \E q \in BagToSet(call) : \E nonce \in Draws(q) :
                     Serve(q, nonce, TRUE)

InitChecks == Start(OneAlgorithm)
NextChecks == BeginCheck \/ ServeRecorded \/ TickWindow

SpecChecks == InitChecks /\ [][NextChecks]_vars

\* A burst: each caller issues one check, all within a few ticks.
BeginOnce == \E alg \in use, id \in Ids :
                 nops < BurstCallers /\ Begin("check", alg, id, lim, win)
TickFine == now + 1 <= MaxBurstTicks /\ Tick(1)

InitBurst == Start(OneAlgorithm)
NextBurst == BeginOnce \/ ServeRecorded \/ TickFine

SpecBurst == InitBurst /\ [][NextBurst]_vars

\* One caller checking again and again under a simulated clock that moves
\* between calls only.
Quiet == call = EmptyBag
BeginNext == \E alg \in use, id \in Ids :
                 Quiet /\ nops < MaxSeqOps /\ Begin("check", alg, id, lim, win)
\* window / limit seconds: the time one token takes to refill
RefillTicks == (win * TicksPerSec) \div lim
TickRefill == Quiet /\ Tick(RefillTicks)
TickFull == Quiet /\ Tick(win * TicksPerSec)

InitSeq == Start(OneAlgorithm)
NextSeq == BeginNext \/ ServeRecorded \/ TickRefill \/ TickFull

SpecSeq == InitSeq /\ [][NextSeq]_vars

\* Callers that pass any accepted limit and window with each call, the
\* clock moving a second at a time.
BeginFree == \E op \in Ops, alg \in use, id \in Ids :
                 \E limit \in Limits, window \in Windows :
                     nops < MaxOps /\ Begin(op, alg, id, limit, window)
TickSecond == Tick(TicksPerSec)

InitFree == Start(OneAlgorithm)
NextFree == BeginFree \/ ServeAny \/ TickSecond

SpecFree == InitFree /\ [][NextFree]_vars

\* One caller issuing check, status and reset calls one after the other,
\* the results recorded.
BeginCall == \E op \in Ops, alg \in use, id \in Ids :
                 Quiet /\ nops < MaxSeqOps /\ Begin(op, alg, id, lim, win)

InitCalls == Start(OneAlgorithm)
NextCalls == BeginCall \/ ServeRecorded \/ TickRefill \/ TickFull

SpecCalls == InitCalls /\ [][NextCalls]_vars

\* Concurrent callers that use several identifiers.
BeginIds == \E op \in Ops, alg \in use, id \in Identifiers :
                nops < MaxOps /\ Begin(op, alg, id, lim, win)

InitIds == Start(OneAlgorithm)
NextIds == BeginIds \/ ServeAny \/ TickWindow

SpecIds == InitIds /\ [][NextIds]_vars

\* Callers that use both algorithms and several identifiers, one request
\* at a time.
InitKeys == Start({Algs})
BeginKeys == \E op \in Ops, alg \in use, id \in Identifiers :
                 Quiet /\ nops < MaxOps /\ Begin(op, alg, id, lim, win)

NextKeys == BeginKeys \/ ServeAny \/ TickWindow

SpecKeys == InitKeys /\ [][NextKeys]_vars

\* Requests through the request layer, which also resets all algorithms
\* of an identifier at once.
BeginResetAll == \E id \in Ids :
                     nops < MaxOps /\ Begin(RESET_ALL, TOKEN_BUCKET, id, lim, win)

NextHttp == BeginAny \/ BeginResetAll \/ ServeAny \/ TickWindow

SpecHttp == Init /\ [][NextHttp]_vars

\* One request at a time against a store that may refuse a command or
\* leave it unanswered.
RefuseAny == \E q \in BagToSet(call) : Refuse(q)

TimeoutAny == \E q \in BagToSet(call), ran \in {0, 1} :
                  \E nonce \in Draws(q) : Timeout(q, nonce, ran)

BeginAlone == \E op \in Ops, alg \in use, id \in Ids :
                  Quiet /\ nops < MaxOps /\ Begin(op, alg, id, lim, win)

InitFaults == Start(OneAlgorithm)
NextFaults == BeginAlone \/ ServeAny \/ RefuseAny \/ TimeoutAny \/ TickFull

SpecFaults == InitFaults /\ [][NextFaults]_vars

\* Clients that send anything as limit, window_seconds and algorithm, one
\* request at a time.
RequestAny == \E op \in {"check", "status"}, id \in Ids :
                  \E algorithm \in use \cup (AlgorithmInputs \ Algs),
                     limit \in NonPositive \cup {lim},
                     window \in NonPositive \cup {win} :
                      /\ Quiet /\ nops < MaxOps
                      /\ Request(op, algorithm, id, limit, window)

InitInputs == Start(OneAlgorithm)
NextInputs == RequestAny \/ ServeAny \/ TickWindow

SpecInputs == InitInputs /\ [][NextInputs]_vars

\* Checks and resets, of one algorithm or of all, on several identifiers,
\* one request at a time.
BeginReset == \E id \in Identifiers :
                  \/ \E op \in {"check", "reset"}, alg \in use :
                         Quiet /\ nops < MaxSeqOps /\ Begin(op, alg, id, lim, win)
                  \/ /\ Quiet /\ nops < MaxSeqOps
                     /\ Begin(RESET_ALL, TOKEN_BUCKET, id, lim, win)

InitResets == Start({Algs})
NextResets == BeginReset \/ ServeAny \/ TickFull

SpecResets == InitResets /\ [][NextResets]_vars

\* The service between startups and shutdowns, with health checks, one
\* request at a time.
UnconnectedAny == \E op \in Ops, alg \in use, id \in Ids :
                      Quiet /\ nops < MaxOps /\ Unconnected(op, alg, id, lim, win)
HealthAny == \E pong \in {PONG} \cup RedisErrors : Health(pong)

InitHealth == Start(OneAlgorithm)
NextHealth == \/ BeginAlone \/ UnconnectedAny \/ ServeAny \/ TickFull
              \/ HealthAny \/ Disconnect \/ Connect

SpecHealth == InitHealth /\ [][NextHealth]_vars

\* One caller of the sliding window that keeps checking, allowed or not,
\* the clock moving a second at a time between its calls.
BeginLocked == \E id \in Ids :
                   /\ Quiet /\ nops < MaxLockoutOps
                   /\ Begin("check", SLIDING_WINDOW, id, lim, win)

InitLockout == Start({{SLIDING_WINDOW}})
TickQuiet == Quiet /\ Tick(TicksPerSec)

NextLockout == BeginLocked \/ ServeRecorded \/ TickQuiet

SpecLockout == InitLockout /\ [][NextLockout]_vars

\* ------------------------------------------ the demonstration service
\* server.py: a protected endpoint asks the limiter before it answers.
\* log holds the outcome of each protected request, in order.
MaxDemoOps == 2

TOO_MANY_REQUESTS == 429

\* the httpx.RequestError the POST may end with
RequestErrors == {"ConnectError", "ReadTimeout"}

\* a dependency that turns every answer other than 200 into a rejection,
\* the fault C36_FailOpen excludes
RateLimitFailClosed(status_code, allowed) ==
    IF status_code # 200 \/ ~allowed THEN TOO_MANY_REQUESTS ELSE None

\* check_rate_limit once the limiter's response is there: the status of
\* the HTTPException it raises, or None when it returns and the request is
\* served.  allowed is data.get("allowed", False).
RateLimit(status_code, allowed) ==
    IF status_code # 200 THEN None
    ELSE IF ~allowed THEN TOO_MANY_REQUESTS
    ELSE None

\* check_rate_limit when the POST raises httpx.RequestError: pass
RateLimitError(err) == None

\* no protected request is waiting for the limiter
DemoIdle == nops = Len(log)

\* A protected request arrives and check_rate_limit posts its one check
\* to the limiter, with the limit and window the dependency was made with.
DemoPost(alg, id, limit, window) ==
    /\ DemoIdle /\ Quiet /\ nops < MaxDemoOps
    /\ Request("check", alg, id, limit, window)

\* A protected request arrives and the POST does not reach the limiter.
DemoConnectError ==
    /\ DemoIdle /\ Quiet /\ nops < MaxDemoOps
    /\ nops' = nops + 1
    /\ log' = Append(log, [status |-> RateLimitError("ConnectError"),
                           response |-> None, allowed |-> FALSE,
                           error |-> "ConnectError", calls |-> nops + 1])
    /\ UNCHANGED <<now, store, call, result, use, lim, win, client>>

\* The limiter's response arrives and check_rate_limit decides.
DemoResponse ==
    /\ ~DemoIdle /\ Quiet
    /\ LET allowed == IF result.http = 200 THEN result.allowed ELSE FALSE
       IN log' = Append(log, [status |-> RateLimit(result.http, allowed),
                              response |-> result.http, allowed |-> allowed,
                              error |-> NoError, calls |-> nops])
    /\ UNCHANGED <<now, store, call, result, nops, use, lim, win, client>>

\* No response within the POST's timeout of 5 seconds: httpx.ReadTimeout.
DemoTimeout ==
    /\ ~DemoIdle
    /\ log' = Append(log, [status |-> RateLimitError("ReadTimeout"),
                           response |-> None, allowed |-> FALSE,
                           error |-> "ReadTimeout", calls |-> nops])
    /\ UNCHANGED <<now, store, call, result, nops, use, lim, win, client>>

DemoPostAny == \E alg \in use, id \in Ids :
                   \E limit \in NonPositive \cup {lim} :
                       DemoPost(alg, id, limit, win)

InitDemo == Start(OneAlgorithm)
NextDemo == \/ DemoPostAny \/ DemoConnectError \/ DemoResponse \/ DemoTimeout
            \/ ServeAny \/ RefuseAny \/ TimeoutAny \/ TickFull

SpecDemo == InitDemo /\ [][NextDemo]_vars

\* The wrapper over startups that may fail, shutdowns and requests, one
\* request at a time.
ConnectAny == \E pong \in {PONG} \cup RedisErrors : ConnectPing(pong)

InitStartup == Start(OneAlgorithm)
NextStartup == \/ ConnectAny \/ Disconnect \/ BeginAlone \/ UnconnectedAny
               \/ ServeAny \/ HealthAny \/ TickFull

SpecStartup == InitStartup /\ [][NextStartup]_vars

\* ------------------------------------------------------------ claims
\* the limiter has just returned the result of a check of alg
Checked(alg) == result.op = "check" /\ result.alg = alg

\* timestamps of the recorded allowed checks of one key
AdmittedStamps(alg, id) ==
    {log[j].ts : j \in {k \in 1..Len(log) :
                            log[k].alg = alg /\ log[k].id = id /\ log[k].allowed}}

\* number of recorded allowed checks of one key with timestamps in lo..hi
AdmittedIn(alg, id, lo, hi) ==
    Cardinality({k \in 1..Len(log) :
                    /\ log[k].alg = alg /\ log[k].id = id /\ log[k].allowed
                    /\ lo <= log[k].ts /\ log[k].ts <= hi})

\* C1: when more callers than the limit each issue one check for one
\* identifier on fresh state at the same time, exactly limit of them are
\* allowed, in whatever order the store serves them.
C1_BurstExact ==
    (Len(log) = BurstCallers /\ BurstCallers > lim) =>
        Cardinality({k \in 1..Len(log) : log[k].allowed}) = lim

\* C2: with one limit and one window, the sorted set of a sliding window
\* key never holds more than limit entries, whatever the interleaving of
\* check, status and reset.
C2_SizeBound == \A i \in Ids : Cardinality(SWEntries(sw[i])) <= lim

\* a check was denied while the key held exactly limit entries
C2_Witness ==
    /\ Checked(SLIDING_WINDOW)
    /\ ~result.allowed
    /\ Cardinality(SWEntries(sw[result.id])) = lim

\* C3: the stored tokens of a bucket used with capacity lim stay within
\* 0..lim, and so does the remaining value every check returns.
C3_TokensInRange ==
    /\ \A i \in Ids :
           tb[i].exists => 0 <= tb[i].tokens /\ tb[i].tokens <= lim * TokScale
    /\ Checked(TOKEN_BUCKET) => 0 <= result.remaining /\ result.remaining <= lim

\* C4: the allowed token bucket checks with timestamps inside any interval
\* of T seconds number at most lim + T * lim / win.
C4_RateBound ==
    \A i \in Ids :
        \A a, b \in AdmittedStamps(TOKEN_BUCKET, i) :
            a <= b =>
                AdmittedIn(TOKEN_BUCKET, i, a, b) * win * TicksPerSec
                    <= lim * win * TicksPerSec + (b - a) * lim

\* C5: among the sliding window checks with timestamps in any half-open
\* interval of win * 1000 milliseconds, at most lim are allowed.
C5_WindowBound ==
    \A i \in Ids :
        \A a \in AdmittedStamps(SLIDING_WINDOW, i) :
            AdmittedIn(SLIDING_WINDOW, i, a, a + win * MsPerSec - 1) <= lim

\* C6: the first check on an identifier with no stored state is allowed,
\* reports remaining = limit - 1 and no retry_after, for both algorithms.
C6_FirstCheck ==
    result.op = "check" /\ result.fresh =>
        /\ result.allowed
        /\ result.remaining = result.limit - 1
        /\ result.retry_after = None

\* a sliding window check was just served on an absent key, after the
\* first token bucket check had created its bucket
C6_Witness ==
    /\ Checked(SLIDING_WINDOW) /\ result.fresh
    /\ \E i \in Ids : tb[i].exists

\* the first n recorded checks carry one timestamp
SameStamp(n) == n <= Len(log) /\ \A j \in 1..n : log[j].ts = log[1].ts

\* C7: limit consecutive checks with no elapsed time on fresh state are
\* allowed with remaining limit-1, ..., 0 and the next one is denied with
\* remaining 0, for both algorithms.
C7_Countdown ==
    \A n \in 1..Len(log) :
        SameStamp(n) =>
            /\ n <= lim => log[n].allowed /\ log[n].remaining = lim - n
            /\ n = lim + 1 => ~log[n].allowed /\ log[n].remaining = 0

\* C8: every denied token bucket check hands its caller a retry_after
\* greater than 0.
C8_RetryPositive ==
    Checked(TOKEN_BUCKET) /\ ~result.allowed => result.retry_after > 0

\* the bucket was exhausted by the first lim checks, all at one timestamp
Exhausted ==
    /\ use = {TOKEN_BUCKET}
    /\ SameStamp(lim)
    /\ \A j \in 1..lim : log[j].allowed

\* C9: once the bucket is exhausted, a check exactly window / limit
\* seconds later is allowed and the check after it at the same timestamp
\* is denied.
C9_OneRefill ==
    Exhausted =>
        /\ (Len(log) > lim /\ log[lim + 1].ts = log[1].ts + RefillTicks)
               => log[lim + 1].allowed
        /\ (Len(log) > lim + 1 /\ log[lim + 1].ts = log[1].ts + RefillTicks
               /\ log[lim + 2].ts = log[lim + 1].ts)
               => ~log[lim + 2].allowed

\* the first lim sliding window checks were allowed
Filled ==
    /\ use = {SLIDING_WINDOW}
    /\ Len(log) >= lim
    /\ \A j \in 1..lim : log[j].allowed

\* C10: after limit allowed sliding window checks, the first at t1, a
\* further check before t1 + window is denied and the first check at or
\* after t1 + window is allowed.
C10_WindowExpiry ==
    Filled =>
        \A j \in (lim + 1)..Len(log) :
            (\A k \in (lim + 1)..(j - 1) : log[k].ts < log[1].ts + win * MsPerSec)
                => (log[j].allowed <=> log[j].ts >= log[1].ts + win * MsPerSec)

\* what a check started and served now would return on the stored value key
LaterCheck(alg, key, limit, window) ==
    LET r == IF alg = TOKEN_BUCKET
             THEN TBCheckScript(key, limit, window, Stamp(alg, now), now)
             ELSE SWCheckScript(key, limit, window, Stamp(alg, now), 1, now)
    IN <<r.allowed, r.remaining>>

\* C11: a status call served by the store, whatever limit and window it
\* passes, leaves the allowed and remaining of every later check as they
\* would have been without it, for both algorithms.
C11_StatusReadOnly ==
    [][(result'.op = "status" /\ call' # call) =>
          LET k == GetKey(result'.alg, result'.id)
          IN \A limit \in Limits, window \in Windows :
                 LaterCheck(result'.alg, store[k], limit, window)
                     = LaterCheck(result'.alg, store'[k], limit, window)]_vars

\* the recorded calls j and j + 1 are a reset and a check of one key
ResetThenCheck(j) ==
    /\ j < Len(log)
    /\ log[j].op = "reset" /\ log[j + 1].op = "check"
    /\ log[j + 1].alg = log[j].alg /\ log[j + 1].id = log[j].id

\* C12: a check that follows a reset of its identifier is allowed with
\* remaining = limit - 1, whatever the state before the reset, for both
\* algorithms.
C12_ResetThenCheck ==
    \A j \in 1..Len(log) :
        ResetThenCheck(j) =>
            log[j + 1].allowed /\ log[j + 1].remaining = log[j + 1].limit - 1

\* an exhausted identifier was reset and then checked
C12_Witness ==
    /\ Len(log) = 3
    /\ log[1].op = "check" /\ log[1].allowed /\ log[1].remaining = 0
    /\ log[2].deleted
    /\ ResetThenCheck(2)

\* this step is the store serving a call
Served == BagCardinality(call') < BagCardinality(call)

\* C13: a check, status or reset on one identifier leaves the stored state
\* of every other identifier as it was.
C13_IdentifierFrame ==
    [][Served =>
          \A alg \in Algs, i \in Identifiers \ {result'.id} :
              store'[GetKey(alg, i)] = store[GetKey(alg, i)]]_vars

\* a call on one identifier was served while another identifier of the
\* same algorithm had stored state
C13_Witness ==
    /\ result.op \in Ops
    /\ \E i \in Identifiers \ {result.id} : store[GetKey(result.alg, i)].exists

\* no two pairs of an algorithm and an identifier string have one key
KeyInjective ==
    \A a1, a2 \in Algs, i1, i2 \in KeyStrings \cup Identifiers :
        GetKey(a1, i1) = GetKey(a2, i2) => a1 = a2 /\ i1 = i2

\* C14: the key '<prefix>:<identifier>' determines the algorithm and the
\* identifier, also for identifiers that contain ':' or a prefix, and a
\* call of one algorithm leaves every key of the other algorithm as it was.
C14_KeysDisjoint ==
    [][/\ KeyInjective
       /\ Served =>
              \A alg \in Algs \ {result'.alg}, i \in Identifiers :
                  store'[GetKey(alg, i)] = store[GetKey(alg, i)]]_vars

\* a call of one algorithm was served while the other algorithm had stored
\* state for the same identifier
C14_Witness ==
    /\ result.op \in Ops
    /\ \E alg \in Algs \ {result.alg} : store[GetKey(alg, result.id)].exists

\* C15: a reset that finds no key is not an error: the limiter returns
\* true exactly when a key existed, a reset that cleared nothing leaves the
\* store as it was, and the request layer answers it with success (200)
\* whether one algorithm was selected or all.
C15_ResetAbsent ==
    [][Served /\ result'.op \in Resets =>
          /\ result'.deleted <=> ~result'.fresh
          /\ result'.reset_count = 0 =>
                 store' = store /\ result'.http = 200]_vars

C17_AtMostOnce == result.op = "check" => result.execs <= 1

\* C18: a check or status request with limit <= 0, window_seconds <= 0 or
\* an unknown algorithm is answered 422 and no limiter call is made for it:
\* every call the arrival of a request adds has an algorithm, a limit >= 1
\* and a window >= 1, and the arrival leaves every key as it was.
C18_InvalidRejected ==
    [][nops' = nops + 1 =>
          /\ \A q \in BagToSet(call' (-) call) :
                 q.alg \in Algs /\ q.limit >= 1 /\ q.window >= 1
          /\ call' = call => result'.http = 422
          /\ store' = store]_vars

C18_Witness ==
    /\ result.op \in {"check", "status"} /\ result.http = 422
    /\ result.limit <= 0
    /\ \E k \in Keys : store[k].exists

\* C19: for both algorithms, retry_after is None exactly when the check is
\* allowed and a number exactly when it is denied, in the limiter's result
\* and in the response of the check endpoint alike.
C19_RetryAfterAbsent ==
    result.op = "check" =>
        /\ result.retry_after = None <=> result.allowed
        /\ result.http_retry_after = None <=> result.allowed

\* C20: every denied sliding-window check with window W returns a
\* retry_after with 0 < retry_after <= W seconds, however the steps of
\* concurrent callers are ordered.
C20_RetryWithinWindow ==
    Checked(SLIDING_WINDOW) /\ ~result.allowed =>
        /\ 0 < result.retry_after
        /\ result.retry_after <= result.window * MsPerSec

\* this step is the store serving a reset of key k
ResetOf(k) == Served /\ result'.op \in Resets /\ k = GetKey(result'.alg, result'.id)

\* C21: every check, allowed or denied, leaves its key with an expiry of
\* 2 x window_seconds from the moment the store ran it, and a key that is
\* not reset disappears only when the clock reaches that expiry.
C21_ExpiryTwoWindows ==
    [][/\ Served /\ result'.op = "check" =>
              LET k == store'[GetKey(result'.alg, result'.id)]
              IN k.exists /\ k.expire_at = now + Ttl(result'.window)
       /\ \A k \in Keys :
              store[k].exists /\ ~store'[k].exists /\ ~ResetOf(k) =>
                  now' > now /\ store[k].expire_at <= now']_vars

\* the recorded call j is a status call that found no stored state
StatusFresh(j) == log[j].op = "status" /\ log[j].fresh

\* C22: a status call on an identifier without stored state reports
\* requests_used = 0 and remaining = limit, for both algorithms, and
\* creates no key: a reset that follows it returns false.
C22_StatusFresh ==
    \A j \in 1..Len(log) :
        StatusFresh(j) =>
            /\ log[j].used = 0 /\ log[j].remaining = log[j].limit
            /\ j < Len(log) /\ log[j + 1].op = "reset" => ~log[j + 1].deleted

\* a key was created and expired, then a status call and a reset followed
C22_Witness ==
    /\ Len(log) = 3
    /\ log[1].op = "check"
    /\ StatusFresh(2)
    /\ log[3].op = "reset"

\* this step is the first limiter call of a reset of all algorithms
FirstReset(q) == q.op = RESET_ALL /\ q.alg = TOKEN_BUCKET /\ ~BagIn(q, call')

\* every key but those of identifier id under the algorithms algs is as
\* it was
OnlyChanged(algs, id) ==
    \A alg \in Algs, i \in Identifiers :
        alg \notin algs \/ i # id =>
            store'[GetKey(alg, i)] = store[GetKey(alg, i)]

\* C23: a reset with an algorithm selected deletes that algorithm's key of
\* the identifier and leaves every other key, the other algorithm's key of
\* the same identifier included, as it was; a reset without a selector
\* deletes the identifier's keys of both algorithms and no key of another
\* identifier.
C23_ResetFrame ==
    [][/\ Served /\ result'.op = "reset" =>
              /\ ~store'[GetKey(result'.alg, result'.id)].exists
              /\ OnlyChanged({result'.alg}, result'.id)
       /\ \A q \in BagToSet(call) :
              FirstReset(q) =>
                  /\ ~store'[GetKey(TOKEN_BUCKET, q.id)].exists
                  /\ OnlyChanged({TOKEN_BUCKET}, q.id)
       /\ Served /\ result'.op = RESET_ALL =>
              /\ \A alg \in Algs : ~store'[GetKey(alg, result'.id)].exists
              /\ OnlyChanged({SLIDING_WINDOW}, result'.id)]_vars

\* a reset of all algorithms cleared both keys of its identifier
C23_Witness == result.op = RESET_ALL /\ result.reset_count = 2

\* C24: the health endpoint answers 200 with status "healthy" exactly when
\* redis_connected is true, which is exactly when there is a client and the
\* store answered the ping; otherwise it answers "unhealthy" with
\* redis_connected false.
C24_Health ==
    result.op = "health" =>
        /\ result.http = 200
        /\ result.status = "healthy" <=> result.redis_connected
        /\ result.status \in {"healthy", "unhealthy"}
        /\ result.redis_connected <=> result.initialized /\ result.ping = PONG

\* a health check on a connected client whose ping timed out
C24_Witness ==
    /\ result.op = "health" /\ result.initialized
    /\ result.ping = "TimeoutError" /\ result.status = "unhealthy"
    /\ \E k \in Keys : store[k].exists

\* the tokens (in token units) that a check with timestamp ts, capacity c
\* and window w finds in the stored bucket b after the refill
Refilled(b, c, w, ts) ==
    IF b.exists
    THEN Min(c * TokScale, b.tokens + Refill(ts - b.last_refill, c, w))
    ELSE c * TokScale

\* C25: a token-bucket check with timestamp now, capacity C and window W
\* computes t = min(C, tokens + (now - last_refill) * C / W) (t = C when the
\* key is absent), is allowed exactly when t >= 1, stores t - 1 if allowed
\* and t if denied, stores last_refill = now, and returns remaining =
\* floor(stored tokens) and reset_in_seconds = (C - stored tokens) * W / C,
\* which is 0 exactly when the bucket is full.
C25_TokenBucketStep ==
    [][Served /\ result'.op = "check" /\ result'.alg = TOKEN_BUCKET =>
          LET r == result'
              k == GetKey(r.alg, r.id)
              t == Refilled(store[k], r.limit, r.window, r.ts)
              stored == store'[k]
          IN /\ r.allowed <=> t >= TokScale
             /\ stored.tokens = IF r.allowed THEN t - TokScale ELSE t
             /\ stored.last_refill = r.ts
             /\ r.remaining = stored.tokens \div TokScale
             /\ r.reset_in * TokScale * r.limit
                    = MsPerSec * (r.limit * TokScale - stored.tokens) * r.window
             /\ r.reset_in = 0 <=> stored.tokens = r.limit * TokScale]_vars

C27_OneEntryPerCheck ==
    [][Served /\ result'.op = "check" /\ result'.alg = SLIDING_WINDOW
          /\ result'.allowed =>
          LET r == result'
              k == GetKey(r.alg, r.id)
              surviving == {e \in SWEntries(store[k]) :
                               e[1] > r.ts - r.window * MsPerSec}
          IN Cardinality(SWEntries(store'[k])) = Cardinality(surviving) + 1]_vars

\* C28: the stored last_refill of a token-bucket key never decreases from
\* one check of the key to the next, in whatever order the store runs the
\* checks of concurrent callers.
C28_RefillMonotonic ==
    [][Served /\ result'.op = "check" /\ result'.alg = TOKEN_BUCKET =>
          LET k == GetKey(result'.alg, result'.id)
          IN store[k].exists =>
                 store'[k].last_refill >= store[k].last_refill]_vars

\* a check recorded after the denied check j, with no allowed check in
\* between and a timestamp at or after t0 + W * 1000, is allowed; t0 is the
\* oldest entry the denied check found: its timestamp + its retry_after is
\* t0 + W * 1000
LockoutEnds ==
    \A j, k \in 1..Len(log) :
        /\ j < k /\ ~log[j].allowed
        /\ \A m \in (j + 1)..(k - 1) : ~log[m].allowed
        /\ log[k].ts >= log[j].ts + log[j].retry_after
        => log[k].allowed

\* C29: a denied sliding-window check stores no entry, and after a check
\* was denied while the oldest surviving entry had timestamp t0, a check at
\* any time >= t0 + W * 1000 ms is allowed if no check was allowed in
\* between, however many were denied in between.
C29_DeniedStoresNothing ==
    [][/\ Served /\ result'.op = "check" /\ result'.alg = SLIDING_WINDOW
             /\ ~result'.allowed =>
              LET k == GetKey(result'.alg, result'.id)
              IN /\ SWEntries(store'[k]) \subseteq SWEntries(store[k])
                 /\ result'.ts + result'.retry_after
                        = SWOldest(SWEntries(store'[k])) + result'.window * MsPerSec
       /\ LockoutEnds']_vars

\* an allowed check, two denied checks and the allowed check that ends the
\* lockout
C29_Witness ==
    /\ Len(log) = 4
    /\ log[1].allowed /\ ~log[2].allowed /\ ~log[3].allowed /\ log[4].allowed
    /\ log[3].ts > log[2].ts
    /\ log[4].ts = log[2].ts + log[2].retry_after

\* C30: with one capacity and window and nondecreasing timestamps, when a
\* token-bucket check at time t leaves x < 1 tokens stored, a later check
\* at any time >= t + (1 - x) * W / C, with no allowed check in between, is
\* allowed.  Stated for the check that follows directly: the refill of the
\* time between the two timestamps covers the missing 1 - x.
C30_DeniedNeverPostpones ==
    [][/\ Served /\ result'.op = "check" /\ result'.alg = TOKEN_BUCKET
       /\ result.op = "check"
       /\ store[GetKey(result'.alg, result'.id)].exists
       /\ store[GetKey(result'.alg, result'.id)].tokens < TokScale
       /\ Refill(result'.ts - result.ts, result'.limit, result'.window)
              >= TokScale - store[GetKey(result'.alg, result'.id)].tokens
       => result'.allowed]_vars

\* C31: every denied check of either algorithm returns a retry_after that
\* is at most its reset_in_seconds.
C31_RetryBeforeReset ==
    result.op = "check" /\ ~result.allowed =>
        result.retry_after <= result.reset_in

\* a denied token-bucket check that has to wait for less than a full bucket
C31_Witness ==
    /\ Checked(TOKEN_BUCKET) /\ ~result.allowed
    /\ 0 < result.retry_after /\ result.retry_after < result.reset_in

\* the status procedure of result's algorithm run on the stored value v
\* with the arguments and the timestamp of the call that result answers
StatusAgain(v, r) ==
    IF r.alg = TOKEN_BUCKET
    THEN TBStatusScript(v, r.limit, r.window, r.ts)
    ELSE LET s == SWStatusScript(v, r.limit, r.window, r.ts)
         IN [used |-> s.used, remaining |-> s.remaining, reset_in |-> s.reset_in]

\* C32: a served status call leaves the stored value of its key as it was
\* (token bucket and sliding window alike), and the same status call
\* repeated at the same timestamp returns the same requests_used, remaining
\* and reset_in_seconds.
C32_StatusIdempotent ==
    [][(Served /\ result'.op = "status") =>
          LET k == GetKey(result'.alg, result'.id)
              again == StatusAgain(store'[k], result')
          IN /\ store'[k] = store[k]
             /\ again.used = result'.used
             /\ again.remaining = result'.remaining
             /\ again.reset_in = result'.reset_in]_vars

\* what a check or status call with timestamp ts answers when the store
\* runs it on the stored value v (the nonce has no part in the answer)
Answer(op, alg, limit, window, ts, v) ==
    IF alg = TOKEN_BUCKET
    THEN IF op = "check"
         THEN CheckResult(TBCheckScript(v, limit, window, ts, now))
         ELSE StatusResult(TBStatusScript(v, limit, window, ts))
    ELSE IF op = "check"
         THEN CheckResult(SWCheckScript(v, limit, window, ts, 1, now))
         ELSE StatusResult(SWStatusScript(v, limit, window, ts))

\* the latest timestamp an existing stored value v holds
LastStamp(alg, v) ==
    IF alg = TOKEN_BUCKET THEN v.last_refill
    ELSE CHOOSE t \in {Score(e) : e \in v.entries} :
             \A e \in v.entries : Score(e) <= t

\* the key k of (alg, id) expires in this step
Expires(alg, id) ==
    /\ now' # now
    /\ store[GetKey(alg, id)].exists
    /\ ~store'[GetKey(alg, id)].exists

\* C33: expiry is not observable.  When a key expires, every check or
\* status call with the run's limit and window and a timestamp not before
\* the latest one the key holds (a call in flight, or one issued at that
\* moment) is answered as it would be had the key stayed.
C33_ExpiryUnobservable ==
    [][\A alg \in Algs, id \in Identifiers :
          Expires(alg, id) =>
              LET v == store[GetKey(alg, id)]
                  inflight == {<<q.op, q.ts>> : q \in {c \in BagToSet(call) :
                                   /\ c.op \in {"check", "status"}
                                   /\ c.alg = alg /\ c.id = id
                                   /\ c.ts >= LastStamp(alg, v)}}
                  issued == {"check", "status"} \X {Stamp(alg, now')}
              IN \A c \in inflight \cup issued :
                     Answer(c[1], alg, lim, win, c[2], v)
                         = Answer(c[1], alg, lim, win, c[2], NoKey)]_vars

\* C34: a served status call reports remaining >= 1 exactly when a check
\* of the same key with the same limit, window and timestamp, run by the
\* store right after it, is allowed.
C34_StatusAgreesWithCheck ==
    [][(Served /\ result'.op = "status") =>
          LET r == result'
              next == Answer("check", r.alg, r.limit, r.window, r.ts,
                             store'[GetKey(r.alg, r.id)])
          IN (r.remaining >= 1) <=> next.allowed]_vars

\* a status call found an existing key exhausted: it reported nothing
\* remaining and a check at its timestamp is denied
C34_Witness ==
    /\ result.op = "status" /\ result.remaining = 0
    /\ store[GetKey(result.alg, result.id)].exists
    /\ ~Answer("check", result.alg, result.limit, result.window, result.ts,
               store[GetKey(result.alg, result.id)]).allowed

\* C35: every status result of a key used with one limit satisfies
\* requests_used + remaining = limit with both values in 0..limit.
C35_StatusAccounts ==
    result.op = "status" =>
        /\ result.used + result.remaining = result.limit
        /\ result.used \in 0..result.limit
        /\ result.remaining \in 0..result.limit

\* C36: a protected request is rejected with 429 exactly when the limiter
\* answered 200 with allowed = false; after any other status, a
\* connection error or a timeout it is served; and the j-th protected
\* request is decided when exactly j check calls have been made.
C36_FailOpen ==
    \A j \in 1..Len(log) :
        LET e == log[j]
            denied == e.error = NoError /\ e.response = 200 /\ ~e.allowed
        IN /\ e.status = (IF denied THEN TOO_MANY_REQUESTS ELSE None)
           /\ e.calls = j

\* the service has served a request the limiter answered with an error
\* status and rejected the next one
C36_Witness ==
    /\ Len(log) = 2
    /\ log[1].status = None /\ log[1].response \notin {200, None}
    /\ log[2].status = TOO_MANY_REQUESTS

\* C37: the wrapper is initialized by a successful connect only: while
\* the last thing that happened to it is a connect whose ping raised,
\* there is no client, so that the accessor raises and the next connect
\* tries again.
C37_ConnectInitializes ==
    (result.op = "connect" /\ result.error # NoError) => ~client

=============================================================================
